---------------------------- MODULE Spec2Model ----------------------------
(***************************************************************************)
(* Network connectivity and impact analysis of utilities-geospatial-app:   *)
(* the graph API (backend/app/api/graph.py) and the criticality batch      *)
(* (scripts/compute-criticality.py) over the tables synth.graph_edges,     *)
(* synth.services and osm.buildings.                                       *)
(*                                                                         *)
(* Lengths are integers in hundredths of a metre.  pgr_drivingDistance is  *)
(* modelled by what the SQL asks of it: unit cost per edge, undirected,    *)
(* every node whose aggregate cost is within the distance, the start node  *)
(* included at cost 0.                                                     *)
(***************************************************************************)
EXTENDS Integers, Sequences, FiniteSets, TLC

\* ------------------------------------------------------------------ bounds
MaxNodes == 4
MaxEdges == 3
MaxServices == 2
MaxBuildings == 2
MaxRuns == 2
MaxPoints == 3
MaxRegens == 2
MaxRoads == 2
MaxPipes == 3
MaxInput == 3

NodeIds == 1..MaxNodes
\* one pipe more than edges: a pipe need not have an edge
PipeIds == 1..(MaxEdges + 1)
BuildingIds == 1..MaxBuildings
\* path parameters a client may send: every stored id and one unknown id
RequestEdgeIds == 1..(MaxEdges + 1)

VARIABLES
    graph_edges,   \* synth.graph_edges, committed: id -> row
    services,      \* synth.services: id -> row
    buildings,     \* osm.buildings: set of ids
    req,           \* the API request in progress
    resp,          \* the response to the last request, none while one is in progress
    batch,         \* compute_criticality: its position and locals
    history,       \* the scores committed by each finished batch run
    synth_pipes,   \* synth.pipes, committed: id -> row
    graph_nodes,   \* synth.graph_nodes, committed: id -> row
    regen,         \* generate-network.py: its position and uncommitted rows
    last_spread,   \* the last spread response that went to a client
    query,         \* the query string of the last request the API received
    loader         \* load-osm.py insert_buildings: its position and transaction

buildVars == <<synth_pipes, graph_nodes, regen>>

vars == <<graph_edges, services, buildings, req, resp, batch, history,
          synth_pipes, graph_nodes, regen, last_spread, query, loader>>

\* ------------------------------------------------------------ pure helpers
RECURSIVE SumOver(_, _)
SumOver(f, S) ==
    IF S = {} THEN 0
    ELSE LET x == CHOOSE y \in S : TRUE IN f[x] + SumOver(f, S \ {x})

RECURSIVE Perms(_)
Perms(S) ==
    IF S = {} THEN {<<>>}
    ELSE UNION {{<<x>> \o p : p \in Perms(S \ {x})} : x \in S}

Range(s) == {s[i] : i \in DOMAIN s}

RECURSIVE SortedSeq(_)
SortedSeq(S) ==
    IF S = {} THEN <<>>
    ELSE LET m == CHOOSE x \in S : \A y \in S : x <= y
         IN <<m>> \o SortedSeq(S \ {m})

RoundTenth_Floor(x) == 10 * (x \div 10)

\* Python round(x, 1) on a value in hundredths: nearest tenth, ties to even
RoundTenth(x) ==
    LET q == x \div 10
        r == x % 10
    IN IF r < 5 THEN 10 * q
       ELSE IF r > 5 THEN 10 * (q + 1)
       ELSE IF q % 2 = 0 THEN 10 * q ELSE 10 * (q + 1)

\* ------------------------------------------------------- reachability (SQL)
\* The edge rows a pgr_drivingDistance inner query selects.
EdgeRows(edges, excluded) ==
    {[id |-> e, source |-> edges[e].source_id, target |-> edges[e].target_id] :
        e \in (DOMAIN edges) \ excluded}

RECURSIVE DrivingLevels(_, _, _, _)
DrivingLevels(rows, dist, k, distance) ==
    LET frontier == {n \in DOMAIN dist : dist[n] = k}
        next == {m \in NodeIds \ DOMAIN dist :
                    \E r \in rows :
                        \/ r.source \in frontier /\ r.target = m
                        \/ r.target \in frontier /\ r.source = m}
    IN IF k >= distance \/ next = {} THEN dist
       ELSE DrivingLevels(rows, dist @@ [m \in next |-> k + 1], k + 1, distance)

\* node -> agg_cost, for every node within `distance` of `start`
pgr_drivingDistance(rows, start, distance) ==
    DrivingLevels(rows, start :> 0, 0, distance)

\* the distance both the API and the batch pass for "unbounded"
UnboundedDistance == 10000

\* hub_node / main_hub: combined count of occurrences as source and as target
EdgeCount(edges, n) ==
    Cardinality({e \in DOMAIN edges : edges[e].source_id = n})
    + Cardinality({e \in DOMAIN edges : edges[e].target_id = n})

HubRows(edges) ==
    {edges[e].source_id : e \in DOMAIN edges} \cup {edges[e].target_id : e \in DOMAIN edges}

MainHubChoices_AnyNode(edges) == HubRows(edges)

\* ORDER BY SUM(edge_count) DESC LIMIT 1 names no tie-breaker: any row of
\* maximal count may come first.
MainHubChoices(edges) ==
    {n \in HubRows(edges) : \A m \in HubRows(edges) : EdgeCount(edges, m) <= EdgeCount(edges, n)}

ReachableBefore(edges, hub) ==
    DOMAIN pgr_drivingDistance(EdgeRows(edges, {}), hub, UnboundedDistance)

\* the same traversal following edges from source to target only
RECURSIVE DirectedLevels(_, _, _, _)
DirectedLevels(rows, dist, k, distance) ==
    LET frontier == {n \in DOMAIN dist : dist[n] = k}
        next == {m \in NodeIds \ DOMAIN dist :
                    \E r \in rows : r.source \in frontier /\ r.target = m}
    IN IF k >= distance \/ next = {} THEN dist
       ELSE DirectedLevels(rows, dist @@ [m \in next |-> k + 1], k + 1, distance)

ReachableAfter_Directed(edges, hub, edge_id) ==
    DOMAIN DirectedLevels(EdgeRows(edges, {edge_id}), hub :> 0, 0, UnboundedDistance)

ReachableAfter(edges, hub, edge_id) ==
    DOMAIN pgr_drivingDistance(EdgeRows(edges, {edge_id}), hub, UnboundedDistance)

DisconnectedNodes_NotAfter(before, after) == NodeIds \ after

\* disconnected_nodes: reachable before and not after
DisconnectedNodes(before, after) == before \ after

DisconnectedPipes_SourceOnly(edges, disconnected) ==
    {edges[e].pipe_id : e \in {x \in DOMAIN edges : edges[x].source_id \in disconnected}}

DisconnectedPipes(edges, disconnected) ==
    {edges[e].pipe_id : e \in {x \in DOMAIN edges :
        edges[x].source_id \in disconnected \/ edges[x].target_id \in disconnected}}

AffectedServices(svc, pipes) == {s \in DOMAIN svc : svc[s].pipe_id \in pipes}

AffectedBuildings(svc, affected) == {svc[s].building_id : s \in affected}

\* the rows of the outage query for a given hub: the building ids, and the
\* two sub-selects every row carries
OutageQuery(edges, svc, bld, edge_id, hub) ==
    LET before == ReachableBefore(edges, hub)
        after == ReachableAfter(edges, hub, edge_id)
        pipes == DisconnectedPipes(edges, DisconnectedNodes(before, after))
        affected == AffectedServices(svc, pipes)
    IN [affected |-> affected,
        building_ids |-> {b \in bld : b \in AffectedBuildings(svc, affected)},
        service_count |-> Cardinality(affected),
        total_length_m |-> SumOver([s \in affected |-> svc[s].length_m], affected)]

\* FROM osm.buildings b WHERE b.id IN (...): one row per building, in any order
OutageRows_PerService(svc, q) ==
    {[i \in 1..Len(p) |-> svc[p[i]].building_id] : p \in Perms(q.affected)}

OutageRows(svc, q) == Perms(q.building_ids)

\* ------------------------------------------------------------- the store
\* build_graph inserts one edge per pipe, so no two edges share a pipe; edge
\* ids need not equal pipe ids.  Pipe 1 is a pipe that has no edge.
PipeOfEdge(e) == e + 1

EdgeRowSet == [source_id : NodeIds, target_id : NodeIds]

\* generate_services gives a service the distance between its building and its
\* pipe, so the length is fixed by the two; in hundredths of a metre
\* (pipe 1 to building 1: 1.14 m, to building 2: 1.26 m, pipe 2: 2.14 m, ...).
ServiceDistance(b, p) == 100 * p + 12 * b + 2

ServiceRowSet ==
    {[building_id |-> b, pipe_id |-> p, length_m |-> ServiceDistance(b, p)] :
        b \in BuildingIds, p \in PipeIds}

\* graph_nodes ids are serial numbers of clusters in no particular order and
\* no statement orders or compares node ids, so graphs are enumerated up to
\* a renaming of the nodes: nodes are numbered in the order the edges first
\* use them.
EndPoints(g, n) ==
    [i \in 1..(2 * n) |->
        IF i % 2 = 1 THEN g[(i + 1) \div 2].source_id ELSE g[i \div 2].target_id]

FirstUseOrder(g, n) ==
    LET slots == EndPoints(g, n)
    IN \A i \in 1..(2 * n) :
         \A v \in 1..(slots[i] - 1) : \E j \in 1..(i - 1) : slots[j] = v

\* A pipe row: the two ends of its line and its class.  Positions are points
\* of a line, in units of the snap tolerance; a pipe whose geometry has no
\* start or end point (NULL, or not a LineString) has NoPoint there.
NoPoint == -1

\* where the junction of node n lies: junctions are further apart than the
\* snap tolerance
NodePoint(n) == 2 * n

\* The pipes a stored graph was built from: the pipe of edge e runs between
\* the junctions of its two nodes, and pipe 1, which has no edge, is a pipe
\* without usable geometry.
BuiltFrom(edges) ==
    [p \in 1..(Cardinality(DOMAIN edges) + 1) |->
        IF p = 1 THEN [start |-> NoPoint, end |-> NoPoint, class |-> "secondary"]
        ELSE [start |-> NodePoint(edges[p - 1].source_id),
              end |-> NodePoint(edges[p - 1].target_id), class |-> "secondary"]]

\* the node rows of a stored graph: the centroid of the pipe ends that meet
\* at the junction, kept as the sum and the number of the collected points
NodesOf(edges) ==
    [n \in HubRows(edges) |->
        [geom |-> [sum |-> NodePoint(n) * EdgeCount(edges, n),
                   count |-> EdgeCount(edges, n)]]]

\* Edges are numbered from 1 (RESTART IDENTITY) and the score column is at
\* its default until the batch has run.  Buildings are numbered from 1 as
\* well; every service references a stored building (osm.buildings is
\* truncated with CASCADE) and any pipe, and a building may have several.
StoreInit ==
    /\ \E n \in 0..MaxEdges :
         \E g \in [1..n -> EdgeRowSet] :
            /\ FirstUseOrder(g, n)
            /\ graph_edges =
                 [e \in 1..n |->
                    [source_id |-> g[e].source_id, target_id |-> g[e].target_id,
                     pipe_id |-> PipeOfEdge(e), affected_building_count |-> 0]]
    /\ \E nb \in 0..MaxBuildings :
         /\ buildings = 1..nb
         /\ \E k \in 0..MaxServices :
              services \in [1..k -> {r \in ServiceRowSet : r.building_id \in 1..nb}]
    /\ synth_pipes = BuiltFrom(graph_edges)
    /\ graph_nodes = NodesOf(graph_edges)

Idle == [op |-> "none", pc |-> "idle"]
NoResponse == [op |-> "none", status |-> 0]
NoEdge == 0
BatchIdle ==
    [pc |-> "idle", total_edges |-> 0, hub_node |-> 0, full_reachable |-> {},
     edge_ids |-> <<>>, processed |-> 0, max_affected |-> 0, max_edge_id |-> NoEdge,
     pending |-> <<>>, log |-> <<>>]

\* generate-network.py is not running.  `cascade` names the tables that
\* reference synth.pipes by a foreign key, which TRUNCATE synth.pipes CASCADE
\* truncates too; new_nodes and new_edges are the rows build_graph has
\* inserted and not committed; `old` is the network a run found when it
\* started, kept for the properties.
NoNetwork == [pipes |-> <<>>, nodes |-> <<>>, edges |-> <<>>]

RegenIdle ==
    [pc |-> "idle", runs |-> 0, cascade |-> {}, new_nodes |-> <<>>, new_edges |-> <<>>,
     old |-> NoNetwork]

\* build_graph has run TRUNCATE synth.graph_edges and has not committed: it
\* holds the ACCESS EXCLUSIVE lock of the table, and no other transaction
\* reads or writes the table until the commit
GraphLocked == regen.pc \in {"nodes", "edges", "commit"}

\* no request has been received
NoQuery == [op |-> "none"]

\* the osm_id column of the stored buildings: rows of an earlier load
OldOsmId(b) == 10 + b

\* insert_buildings is not running.  osm_id is the osm_id column of
\* osm.buildings by row id, seq the next value of the id sequence, txn the
\* open transaction (whether it holds the TRUNCATE, the sequence value to
\* restore, the rows inserted), inserted the buildings whose INSERT succeeded.
LoaderIdle(bld) ==
    [pc |-> "idle", input |-> <<>>, i |-> 0,
     osm_id |-> [b \in bld |-> OldOsmId(b)], seq |-> Cardinality(bld) + 1,
     txn |-> [truncated |-> FALSE, restore |-> 0, rows |-> <<>>],
     inserted |-> {}]

Init ==
    /\ StoreInit
    /\ req = Idle
    /\ resp = NoResponse
    /\ batch = BatchIdle
    /\ history = <<>>
    /\ regen = RegenIdle
    /\ last_spread = NoResponse
    /\ query = NoQuery
    /\ loader = LoaderIdle(buildings)

\* --------------------------------------------------- GET /graph/outage/{id}
EdgeExists_ByPipe(edges, edge_id) == edge_id \in {edges[e].pipe_id : e \in DOMAIN edges}

\* SELECT EXISTS(SELECT 1 FROM synth.graph_edges WHERE id = :edge_id)
EdgeExists(edges, edge_id) == edge_id \in DOMAIN edges

NotFound(op, edge_id) ==
    [op |-> op, status |-> 404, edge_id |-> edge_id, log |-> <<"exists">>]

OutageResponse_ServiceCount(edge_id, hub, rows, q) ==
    [op |-> "outage", status |-> 200, edge_id |-> edge_id, hub |-> hub,
     log |-> <<>>,
     features |-> rows,
     stats |-> [affected_building_count |-> q.service_count,
                affected_service_count |-> IF rows # <<>> THEN q.service_count ELSE 0,
                total_service_length_m |->
                    IF rows # <<>> THEN RoundTenth(q.total_length_m) ELSE 0]]

OutageResponse(edge_id, hub, rows, q) ==
    [op |-> "outage", status |-> 200, edge_id |-> edge_id, hub |-> hub,
     log |-> <<>>,
     features |-> rows,
     stats |-> [affected_building_count |-> Len(rows),
                affected_service_count |-> IF rows # <<>> THEN q.service_count ELSE 0,
                total_service_length_m |->
                    IF rows # <<>> THEN RoundTenth(q.total_length_m) ELSE 0]]

StoreAfterOutage_EdgeDeleted(edges, edge_id) ==
    [e \in (DOMAIN edges) \ {edge_id} |-> edges[e]]

\* synth.graph_edges after the outage statement: the edge is left out by the
\* WHERE of the inner query of reachable_after, the statement is a SELECT
\* and the session is closed without a commit
StoreAfterOutage(edges, edge_id) == edges

\* the existence check and its 404
OutageCheck ==
    /\ ~GraphLocked
    /\ req.pc = "idle"
    /\ \E edge_id \in RequestEdgeIds :
         IF EdgeExists(graph_edges, edge_id)
         THEN /\ req' = [op |-> "outage", pc |-> "query", edge_id |-> edge_id,
                         log |-> <<"exists">>]
              /\ resp' = NoResponse
         ELSE /\ req' = Idle
              /\ resp' = NotFound("outage", edge_id)
    /\ UNCHANGED <<buildVars, last_spread, query, loader, graph_edges, services, buildings, batch, history>>

\* the outage statement, run against the store as it is now, and the response
OutageRun ==
    /\ ~GraphLocked
    /\ req.op = "outage" /\ req.pc = "query"
    /\ LET hubs == MainHubChoices(graph_edges)
       IN \E hub \in (IF hubs = {} THEN {0} ELSE hubs) :
            LET q == OutageQuery(graph_edges, services, buildings, req.edge_id, hub)
            IN \E rows \in OutageRows(services, q) :
                 resp' = [OutageResponse(req.edge_id, hub, rows, q)
                             EXCEPT !.log = Append(req.log, "outage")]
    /\ req' = Idle
    /\ graph_edges' = StoreAfterOutage(graph_edges, req.edge_id)
    /\ UNCHANGED <<buildVars, last_spread, query, loader, services, buildings, batch, history>>

\* -------------------------------------------- GET /graph/nearby_edges/{id}
\* hops: Query(default=1, ge=1, le=10); the model sends the two smallest
NearbyHops == {1, 2}

\* find_nearby_edges(edge_id, hops): every edge with an endpoint within
\* `hops` of an endpoint of the starting edge, with that distance as its hop
find_nearby_edges(edges, edge_id, hops) ==
    LET rows == EdgeRows(edges, {})
        d1 == pgr_drivingDistance(rows, edges[edge_id].source_id, hops)
        d2 == pgr_drivingDistance(rows, edges[edge_id].target_id, hops)
        near(n) == IF n \in DOMAIN d1
                   THEN (IF n \in DOMAIN d2 /\ d2[n] < d1[n] THEN d2[n] ELSE d1[n])
                   ELSE d2[n]
        hop(e) == LET s == edges[e].source_id
                      t == edges[e].target_id
                      R == (DOMAIN d1) \cup (DOMAIN d2)
                  IN IF s \in R /\ t \in R
                     THEN (IF near(s) < near(t) THEN near(s) ELSE near(t))
                     ELSE IF s \in R THEN near(s) ELSE near(t)
    IN {[edge_id |-> e, hop |-> hop(e)] :
          e \in {x \in DOMAIN edges :
                   edges[x].source_id \in (DOMAIN d1) \cup (DOMAIN d2)
                   \/ edges[x].target_id \in (DOMAIN d1) \cup (DOMAIN d2)}}

\* the handler body up to its first return: the existence check and its 404
NearbyLookup(edge_id, hops) ==
    IF EdgeExists(graph_edges, edge_id)
    THEN /\ req' = [op |-> "nearby_edges", pc |-> "query", edge_id |-> edge_id,
                    hops |-> hops, log |-> <<"exists">>]
         /\ resp' = NoResponse
    ELSE /\ req' = Idle
         /\ resp' = NotFound("nearby_edges", edge_id)

NearbyCheck ==
    /\ ~GraphLocked
    /\ req.pc = "idle"
    /\ \E edge_id \in RequestEdgeIds, hops \in NearbyHops : NearbyLookup(edge_id, hops)
    /\ UNCHANGED <<buildVars, last_spread, query, loader, graph_edges, services, buildings, batch, history>>

NearbyRun ==
    /\ ~GraphLocked
    /\ req.op = "nearby_edges" /\ req.pc = "query"
    /\ resp' = [op |-> "nearby_edges", status |-> 200, edge_id |-> req.edge_id,
                log |-> Append(req.log, "find_nearby_edges"),
                features |->
                    IF EdgeExists(graph_edges, req.edge_id)
                    THEN find_nearby_edges(graph_edges, req.edge_id, req.hops)
                    ELSE {}]
    /\ req' = Idle
    /\ UNCHANGED <<buildVars, last_spread, query, loader, graph_edges, services, buildings, batch, history>>

\* the handler returns: the response has gone to the client
Respond ==
    /\ req.pc = "idle"
    /\ resp # NoResponse
    /\ resp' = NoResponse
    /\ UNCHANGED <<buildVars, last_spread, query, loader, graph_edges, services, buildings, req, batch, history>>

NextOutage == OutageCheck \/ OutageRun \/ NearbyCheck \/ NearbyRun \/ Respond

SpecOutage == Init /\ [][NextOutage]_vars

\* ------------------------------------------------------- GET /graph/status
GraphStatus ==
    /\ ~GraphLocked
    /\ req.pc = "idle"
    /\ resp' = [op |-> "status", status |-> 200, pgrouting_available |-> TRUE,
                edge_count |-> Cardinality(DOMAIN graph_edges)]
    /\ UNCHANGED <<buildVars, last_spread, query, loader, graph_edges, services, buildings, req, batch,
                   history>>

\* ------------------------------------------------- GET /graph/nearest_edge
\* the points a client may click
Points == 1..MaxPoints

\* Distance in metres between click point p and the line of edge e: point 1
\* is as near to edge 1 as to edge 2, point 2 as near to edge 2 as to edge 3,
\* and every point is far from some edge.
DistanceMeters(p, e) ==
    IF 2 * e >= 2 * p + 1 THEN 2 * e - (2 * p + 1) ELSE (2 * p + 1) - 2 * e

\* the radius beyond which find_nearest_edge finds nothing
SearchRadius == 4

find_nearest_edge_AnyTie(edges, p) ==
    LET near == {e \in DOMAIN edges : DistanceMeters(p, e) <= SearchRadius}
    IN {[edge_id |-> e, distance_meters |-> DistanceMeters(p, e)] :
          e \in {x \in near : \A y \in near : DistanceMeters(p, x) <= DistanceMeters(p, y)}}

find_nearest_edge_LargestId(edges, p) ==
    LET near == {e \in DOMAIN edges : DistanceMeters(p, e) <= SearchRadius}
    IN {[edge_id |-> e, distance_meters |-> DistanceMeters(p, e)] :
          e \in {x \in near : \A y \in near :
                    \/ DistanceMeters(p, x) < DistanceMeters(p, y)
                    \/ DistanceMeters(p, x) = DistanceMeters(p, y) /\ x >= y}}

\* find_nearest_edge(lon, lat): the rows of the function, none or one; the
\* edge at the smallest distance within the radius, the smallest id among
\* edges at that distance
find_nearest_edge(edges, p) ==
    LET near == {e \in DOMAIN edges : DistanceMeters(p, e) <= SearchRadius}
    IN {[edge_id |-> e, distance_meters |-> DistanceMeters(p, e)] :
          e \in {x \in near : \A y \in near :
                    \/ DistanceMeters(p, x) < DistanceMeters(p, y)
                    \/ DistanceMeters(p, x) = DistanceMeters(p, y) /\ x <= y}}

\* one statement; 404 when it has no row
NearestLookup(p) ==
    LET rows == find_nearest_edge(graph_edges, p)
    IN IF rows = {}
       THEN resp' = [op |-> "nearest_edge", status |-> 404, point |-> p]
       ELSE \E row \in rows :
              resp' = [op |-> "nearest_edge", status |-> 200, point |-> p,
                       edge_id |-> row.edge_id,
                       distance_meters |-> row.distance_meters]

NearestEdge ==
    /\ ~GraphLocked
    /\ req.pc = "idle"
    /\ \E p \in Points : NearestLookup(p)
    /\ UNCHANGED <<buildVars, last_spread, query, loader, graph_edges, services, buildings, req, batch,
                   history>>

\* ------------------------------------------------------- GET /graph/spread
\* max_hops: Query(default=5, ge=1, le=20); the model sends the two smallest
SpreadHops == {1, 2}

\* scalar() of a statement without a row
NoNode == 0

\* SELECT source_id FROM synth.graph_edges WHERE id = :edge_id
SourceNode_Target(edges, edge_id) ==
    IF edge_id \in DOMAIN edges THEN edges[edge_id].target_id ELSE NoNode

SourceNode(edges, edge_id) ==
    IF edge_id \in DOMAIN edges THEN edges[edge_id].source_id ELSE NoNode

\* reachable_nodes: node -> hop; no row for a NULL start
ReachableNodes(edges, source_node, max_hops) ==
    IF source_node = NoNode THEN <<>>
    ELSE pgr_drivingDistance(EdgeRows(edges, {}), source_node, max_hops)

EdgeHop_Source(edges, r, e, max_hops) ==
    IF edges[e].source_id \in DOMAIN r THEN r[edges[e].source_id] ELSE max_hops + 1

EdgeHop_NullAsZero(edges, r, e, max_hops) ==
    LET h1 == IF edges[e].source_id \in DOMAIN r THEN r[edges[e].source_id] ELSE 0
        h2 == IF edges[e].target_id \in DOMAIN r THEN r[edges[e].target_id] ELSE 0
    IN IF h1 <= h2 THEN h1 ELSE h2

\* LEAST(COALESCE(r1.hop, :max_hops + 1), COALESCE(r2.hop, :max_hops + 1))
EdgeHop(edges, r, e, max_hops) ==
    LET h1 == IF edges[e].source_id \in DOMAIN r THEN r[edges[e].source_id]
              ELSE max_hops + 1
        h2 == IF edges[e].target_id \in DOMAIN r THEN r[edges[e].target_id]
              ELSE max_hops + 1
    IN IF h1 <= h2 THEN h1 ELSE h2

\* edges_with_hops: one row per edge with a reached endpoint
EdgesWithHops(edges, r, max_hops) ==
    {[edge_id |-> e, hop |-> EdgeHop(edges, r, e, max_hops)] :
        e \in {x \in DOMAIN edges :
                  edges[x].source_id \in DOMAIN r \/ edges[x].target_id \in DOMAIN r}}

RECURSIVE SpreadOrder_ById(_)
SpreadOrder_ById(rows) ==
    IF rows = {} THEN <<>>
    ELSE LET m == CHOOSE x \in rows : \A y \in rows : x.edge_id <= y.edge_id
         IN <<m>> \o SpreadOrder_ById(rows \ {m})

\* ORDER BY hop, edge_id
RECURSIVE SpreadOrder(_)
SpreadOrder(rows) ==
    IF rows = {} THEN <<>>
    ELSE LET m == CHOOSE x \in rows : \A y \in rows :
                     \/ x.hop < y.hop
                     \/ x.hop = y.hop /\ x.edge_id <= y.edge_id
         IN <<m>> \o SpreadOrder(rows \ {m})

\* the spread statement: WHERE hop <= :max_hops ORDER BY hop, edge_id
SpreadQuery(edges, source_node, max_hops) ==
    LET r == ReachableNodes(edges, source_node, max_hops)
    IN SpreadOrder({row \in EdgesWithHops(edges, r, max_hops) : row.hop <= max_hops})

\* the nearest edge of the click point, 404 when there is none
SpreadLookup(p, max_hops) ==
    LET rows == find_nearest_edge(graph_edges, p)
    IN IF rows = {}
       THEN /\ req' = Idle
            /\ resp' = [op |-> "spread", status |-> 404, point |-> p,
                        max_hops |-> max_hops]
       ELSE /\ \E nearest \in rows :
                 req' = [op |-> "spread", pc |-> "source", point |-> p,
                         max_hops |-> max_hops, edge_id |-> nearest.edge_id]
            /\ resp' = NoResponse

SpreadNearest ==
    /\ ~GraphLocked
    /\ req.pc = "idle"
    /\ \E p \in Points, max_hops \in SpreadHops : SpreadLookup(p, max_hops)
    /\ UNCHANGED <<buildVars, last_spread, query, loader, graph_edges, services, buildings, batch, history>>

\* the source node of that edge
SpreadSource ==
    /\ ~GraphLocked
    /\ req.op = "spread" /\ req.pc = "source"
    /\ req' = [op |-> "spread", pc |-> "query", point |-> req.point,
               max_hops |-> req.max_hops, edge_id |-> req.edge_id,
               source_node |-> SourceNode(graph_edges, req.edge_id)]
    /\ UNCHANGED <<buildVars, last_spread, query, loader, graph_edges, services, buildings, resp, batch,
                   history>>

\* the traversal and the response
SpreadRun ==
    /\ ~GraphLocked
    /\ req.op = "spread" /\ req.pc = "query"
    /\ resp' = [op |-> "spread", status |-> 200, point |-> req.point,
                max_hops |-> req.max_hops, edge_id |-> req.edge_id,
                source_node |-> req.source_node,
                features |-> SpreadQuery(graph_edges, req.source_node, req.max_hops)]
    /\ req' = Idle
    /\ UNCHANGED <<buildVars, last_spread, query, loader, graph_edges, services, buildings, batch, history>>

\* a spread response has gone to the client; it is kept to compare the next
\* one with
RespondSpread ==
    /\ req.pc = "idle"
    /\ resp.op = "spread" /\ resp.status = 200
    /\ last_spread' = resp
    /\ resp' = NoResponse
    /\ UNCHANGED <<buildVars, query, loader, graph_edges, services, buildings, req, batch,
                   history>>

NextSpread == NearestEdge \/ SpreadNearest \/ SpreadSource \/ SpreadRun \/ RespondSpread

\* nearest_edge and spread read synth.graph_edges only: they are run on every
\* graph, with the consumer tables empty
InitSpread == Init /\ services = <<>> /\ buildings = {}

SpecSpread == InitSpread /\ [][NextSpread]_vars

\* ------------------------------------------ query parameters (FastAPI Query)
\* a parameter the query string does not have
Omitted == -1

Unprocessable(op) == [op |-> op, status |-> 422, log |-> <<>>]

IntQuery_NoUpperBound(raw, default, ge, le) ==
    IF raw = Omitted THEN [ok |-> TRUE, value |-> default]
    ELSE [ok |-> raw >= ge, value |-> raw]

\* Query(default=d, ge=a, le=b) of an int parameter
IntQuery(raw, default, ge, le) ==
    IF raw = Omitted THEN [ok |-> TRUE, value |-> default]
    ELSE [ok |-> raw >= ge /\ raw <= le, value |-> raw]

\* Query(...) of a float parameter: required
FloatQuery(raw) == [ok |-> raw # Omitted, value |-> raw]

\* what a client may send: a longitude of one of the points or none, the
\* latitude all points share or none, and a hop count or none
RawLon == Points \cup {Omitted}
RawLat == {0, Omitted}
RawHops == {Omitted, 0, 1, 2, 10, 11}
RawMaxHops == {Omitted, 0, 1, 2, 20, 21}

\* the point of a longitude and a latitude
PointOf(lon, lat) == lon

\* GET /graph/nearest_edge?lon=&lat=: the parameters are validated before the
\* handler body runs
NearestRequest ==
    /\ ~GraphLocked
    /\ req.pc = "idle"
    /\ \E lon \in RawLon, lat \in RawLat :
         /\ query' = [op |-> "nearest_edge", lon |-> lon, lat |-> lat]
         /\ IF FloatQuery(lon).ok /\ FloatQuery(lat).ok
            THEN NearestLookup(PointOf(FloatQuery(lon).value, FloatQuery(lat).value))
            ELSE resp' = Unprocessable("nearest_edge")
    /\ UNCHANGED <<buildVars, last_spread, loader, graph_edges, services, buildings, req, batch,
                   history>>

\* GET /graph/nearby_edges/{edge_id}?hops=
NearbyRequest ==
    /\ ~GraphLocked
    /\ req.pc = "idle"
    /\ \E edge_id \in RequestEdgeIds, hops \in RawHops :
         /\ query' = [op |-> "nearby_edges", edge_id |-> edge_id, hops |-> hops]
         /\ IF IntQuery(hops, 1, 1, 10).ok
            THEN NearbyLookup(edge_id, IntQuery(hops, 1, 1, 10).value)
            ELSE /\ req' = Idle
                 /\ resp' = Unprocessable("nearby_edges")
    /\ UNCHANGED <<buildVars, last_spread, loader, graph_edges, services, buildings, batch, history>>

\* GET /graph/spread?lon=&lat=&max_hops=
SpreadRequest ==
    /\ ~GraphLocked
    /\ req.pc = "idle"
    /\ \E lon \in RawLon, lat \in RawLat, max_hops \in RawMaxHops :
         /\ query' = [op |-> "spread", lon |-> lon, lat |-> lat, max_hops |-> max_hops]
         /\ IF FloatQuery(lon).ok /\ FloatQuery(lat).ok /\ IntQuery(max_hops, 5, 1, 20).ok
            THEN SpreadLookup(PointOf(FloatQuery(lon).value, FloatQuery(lat).value),
                              IntQuery(max_hops, 5, 1, 20).value)
            ELSE /\ req' = Idle
                 /\ resp' = Unprocessable("spread")
    /\ UNCHANGED <<buildVars, last_spread, loader, graph_edges, services, buildings, batch, history>>

NextValidate ==
    \/ NearestRequest
    \/ NearbyRequest \/ NearbyRun
    \/ SpreadRequest \/ SpreadSource \/ SpreadRun
    \/ Respond

SpecValidate == InitSpread /\ [][NextValidate]_vars

\* ------------------------------------------------------ GET /graph/worst_day
WorstRows_AnyPositive(edges, pipe_rows) ==
    {e \in DOMAIN edges :
        edges[e].pipe_id \in DOMAIN pipe_rows /\ edges[e].affected_building_count > 0}

\* JOIN synth.pipes p ON p.id = ge.pipe_id WHERE affected_building_count > 0
\* ORDER BY affected_building_count DESC LIMIT 1: any of the joined edges of
\* maximal positive score
WorstRows(edges, pipe_rows) ==
    LET joined == {e \in DOMAIN edges :
                      /\ edges[e].pipe_id \in DOMAIN pipe_rows
                      /\ edges[e].affected_building_count > 0}
    IN {e \in joined :
          \A x \in joined :
             edges[x].affected_building_count <= edges[e].affected_building_count}

\* the five templates of `messages`; random.choice picks one
MessageTemplates == 1..5

WorstDayEmpty ==
    [op |-> "worst_day", status |-> 200, features |-> <<>>,
     stats |-> [affected_building_count |-> 0, affected_service_count |-> 0,
                total_service_length_m |-> 0],
     worst_pipe |-> NoEdge, dramatic_message |-> [template |-> 0, count |-> 0]]

WorstDayResponse(worst, hub, rows, q, template) ==
    [op |-> "worst_day", status |-> 200, hub |-> hub, features |-> rows,
     stats |-> [affected_building_count |-> Len(rows),
                affected_service_count |-> IF rows # <<>> THEN q.service_count ELSE 0,
                total_service_length_m |->
                    IF rows # <<>> THEN RoundTenth(q.total_length_m) ELSE 0],
     worst_pipe |-> worst.edge_id,
     dramatic_message |-> [template |-> template, count |-> worst.affected_building_count]]

WorstDaySelect ==
    /\ ~GraphLocked
    /\ req.pc = "idle"
    /\ IF WorstRows(graph_edges, synth_pipes) = {}
       THEN /\ req' = Idle
            /\ resp' = WorstDayEmpty
       ELSE /\ \E e \in WorstRows(graph_edges, synth_pipes) :
                 req' = [op |-> "worst_day", pc |-> "query",
                         worst |-> [edge_id |-> e,
                                    affected_building_count |->
                                        graph_edges[e].affected_building_count]]
            /\ resp' = NoResponse
    /\ UNCHANGED <<buildVars, last_spread, query, loader, graph_edges, services, buildings, batch, history>>

WorstDayRun ==
    /\ ~GraphLocked
    /\ req.op = "worst_day" /\ req.pc = "query"
    /\ LET hubs == MainHubChoices(graph_edges)
       IN \E hub \in (IF hubs = {} THEN {0} ELSE hubs) :
            LET q == OutageQuery(graph_edges, services, buildings, req.worst.edge_id, hub)
            IN \E rows \in OutageRows(services, q), template \in MessageTemplates :
                 resp' = WorstDayResponse(req.worst, hub, rows, q, template)
    /\ req' = Idle
    /\ graph_edges' = StoreAfterOutage(graph_edges, req.worst.edge_id)
    /\ UNCHANGED <<buildVars, last_spread, query, loader, services, buildings, batch, history>>

\* ------------------------------------- scripts/compute-criticality.py (batch)
Stmt(name, edge_id, before) == [stmt |-> name, edge |-> edge_id, before |-> before]

\* a new process: SELECT COUNT(*) FROM synth.graph_edges
BatchStart ==
    /\ ~GraphLocked
    /\ batch.pc \in {"idle", "done", "failed"}
    /\ Len(history) < MaxRuns
    /\ batch' = [BatchIdle EXCEPT
                    !.pc = "hub",
                    !.total_edges = Cardinality(DOMAIN graph_edges),
                    !.log = <<Stmt("count", NoEdge, {})>>]
    /\ UNCHANGED <<buildVars, last_spread, query, loader, graph_edges, services, buildings, req, resp, history>>

\* the hub query; fetchone()[0] raises on an empty result and main() closes
\* the connection
BatchHub ==
    /\ ~GraphLocked
    /\ batch.pc = "hub"
    /\ IF MainHubChoices(graph_edges) = {}
       THEN batch' = [batch EXCEPT !.pc = "failed",
                                   !.log = Append(@, Stmt("hub", NoEdge, {}))]
       ELSE \E hub \in MainHubChoices(graph_edges) :
              batch' = [batch EXCEPT !.pc = "full", !.hub_node = hub,
                                     !.log = Append(@, Stmt("hub", NoEdge, {}))]
    /\ UNCHANGED <<buildVars, last_spread, query, loader, graph_edges, services, buildings, req, resp, history>>

BatchFullReachable ==
    /\ ~GraphLocked
    /\ batch.pc = "full"
    /\ batch' = [batch EXCEPT
                    !.pc = "ids",
                    !.full_reachable = ReachableBefore(graph_edges, batch.hub_node),
                    !.log = Append(@, Stmt("full", NoEdge, {}))]
    /\ UNCHANGED <<buildVars, last_spread, query, loader, graph_edges, services, buildings, req, resp, history>>

BatchEdgeIds ==
    /\ ~GraphLocked
    /\ batch.pc = "ids"
    /\ batch' = [batch EXCEPT
                    !.pc = "loop",
                    !.edge_ids = SortedSeq(DOMAIN graph_edges),
                    !.log = Append(@, Stmt("ids", NoEdge, {}))]
    /\ UNCHANGED <<buildVars, last_spread, query, loader, graph_edges, services, buildings, req, resp, history>>

\* COUNT(DISTINCT s.building_id) over the services of the disconnected pipes
AffectedCount_Services(edges, svc, disconnected) ==
    Cardinality(AffectedServices(svc, DisconnectedPipes(edges, disconnected)))

AffectedCount(edges, svc, disconnected) ==
    IF disconnected # {}
    THEN Cardinality(AffectedBuildings(svc,
            AffectedServices(svc, DisconnectedPipes(edges, disconnected))))
    ELSE 0

\* the statements one iteration of the loop runs for edge_id
EdgeStatements_Recompute(edge_id, before) ==
    <<Stmt("full", edge_id, {}), Stmt("after", edge_id, before),
      Stmt("update", edge_id, {})>>

EdgeStatements(edge_id, before) ==
    <<Stmt("after", edge_id, before), Stmt("update", edge_id, {})>>

TrackMaximum_LastWins(max_affected, max_edge_id, affected_count, edge_id) ==
    IF affected_count >= max_affected
    THEN [max_affected |-> affected_count, max_edge_id |-> edge_id]
    ELSE [max_affected |-> max_affected, max_edge_id |-> max_edge_id]

\* if affected_count > max_affected: the maximum and its edge are replaced
TrackMaximum(max_affected, max_edge_id, affected_count, edge_id) ==
    IF affected_count > max_affected
    THEN [max_affected |-> affected_count, max_edge_id |-> edge_id]
    ELSE [max_affected |-> max_affected, max_edge_id |-> max_edge_id]

\* one iteration: after-reachability, count, UPDATE (uncommitted), maximum
BatchEdge ==
    /\ ~GraphLocked
    /\ batch.pc = "loop"
    /\ batch.processed < Len(batch.edge_ids)
    /\ LET edge_id == batch.edge_ids[batch.processed + 1]
           after_reachable == ReachableAfter(graph_edges, batch.hub_node, edge_id)
           disconnected_nodes == DisconnectedNodes(batch.full_reachable, after_reachable)
           affected_count == AffectedCount(graph_edges, services, disconnected_nodes)
       IN batch' = [batch EXCEPT
                      !.pending = IF edge_id \in DOMAIN graph_edges
                                  THEN Append(@, <<edge_id, affected_count>>) ELSE @,
                      !.max_affected =
                          TrackMaximum(@, batch.max_edge_id, affected_count, edge_id).max_affected,
                      !.max_edge_id =
                          TrackMaximum(batch.max_affected, @, affected_count, edge_id).max_edge_id,
                      !.processed = @ + 1,
                      !.log = @ \o EdgeStatements(edge_id, batch.full_reachable)]
    /\ UNCHANGED <<buildVars, last_spread, query, loader, graph_edges, services, buildings, req, resp, history>>

RECURSIVE ApplyUpdates(_, _)
ApplyUpdates(edges, pending) ==
    IF pending = <<>> THEN edges
    ELSE LET u == Head(pending)
             e == IF u[1] \in DOMAIN edges
                  THEN [edges EXCEPT ![u[1]].affected_building_count = u[2]]
                  ELSE edges
         IN ApplyUpdates(e, Tail(pending))

Scores(edges) == [e \in DOMAIN edges |-> edges[e].affected_building_count]

\* conn.commit(): the updates of the run become visible together
BatchCommit ==
    /\ batch.pc = "loop"
    /\ batch.processed = Len(batch.edge_ids)
    /\ graph_edges' = ApplyUpdates(graph_edges, batch.pending)
    /\ batch' = [batch EXCEPT !.pc = "done", !.pending = <<>>,
                              !.log = Append(@, Stmt("commit", NoEdge, {}))]
    /\ history' = Append(history, Scores(graph_edges'))
    /\ UNCHANGED <<buildVars, last_spread, query, loader, services, buildings, req, resp>>

NextBatch ==
    BatchStart \/ BatchHub \/ BatchFullReachable \/ BatchEdgeIds \/ BatchEdge \/ BatchCommit

SpecBatch == Init /\ [][NextBatch]_vars

CloseWithoutCommit_Commits(edges, pending) == ApplyUpdates(edges, pending)

\* conn.close() on a connection with an open transaction: the UPDATEs of the
\* transaction are discarded
CloseWithoutCommit(edges, pending) == edges

\* a statement raises, or the process is stopped, before conn.commit():
\* main() closes the connection in its finally
BatchInterrupt ==
    /\ batch.pc \in {"hub", "full", "ids", "loop"}
    /\ graph_edges' = CloseWithoutCommit(graph_edges, batch.pending)
    /\ batch' = [batch EXCEPT !.pc = "failed", !.pending = <<>>]
    /\ UNCHANGED <<buildVars, last_spread, query, loader, services, buildings, req, resp, history>>

SpecBatchFail == Init /\ [][NextBatch \/ BatchInterrupt]_vars

\* ------------------------------------- scripts/generate-network.py (regen)
\* the roads osm.roads may hold: two that start within the snap tolerance of
\* each other and end at the same point, and one that goes on from there
RoadRowSet ==
    {[start |-> 0, end |-> 3, class |-> "secondary"],
     [start |-> 1, end |-> 3, class |-> "secondary"],
     [start |-> 3, end |-> 5, class |-> "secondary"]}

\* config["graph"]["snap_tolerance_m"], in units of the positions
SnapTolerance == 1

\* config["service"]["max_distance_m"], in hundredths of a metre
ServiceMaxDistance == 130

\* a transaction that has read synth.graph_edges holds its ACCESS SHARE lock
\* until it ends: the batch from its first statement to its commit, a request
\* from its first statement to the close of its session
BatchHoldsLock_Never == FALSE

BatchHoldsLock == batch.pc \in {"hub", "full", "ids", "loop"}

RequestHoldsLock_Never == FALSE

RequestHoldsLock == req.pc # "idle"

\* TRUNCATE synth.graph_edges waits for every lock on the table
TruncateAllowed == ~BatchHoldsLock /\ ~RequestHoldsLock

\* generate_pipes, one transaction: TRUNCATE synth.pipes RESTART IDENTITY
\* CASCADE, a pipe for every road, commit.  worst_day joins synth.pipes in
\* its first statement and holds that lock; a cascade to synth.graph_edges
\* takes the lock of that table as well.
GeneratePipes ==
    /\ regen.pc \in {"idle", "done"}
    /\ regen.runs < MaxRegens
    /\ req.op # "worst_day"
    /\ "graph_edges" \in regen.cascade => TruncateAllowed
    /\ \E r \in 0..MaxRoads :
         \E roads \in [1..r -> RoadRowSet] : synth_pipes' = roads
    /\ services' = IF "services" \in regen.cascade THEN <<>> ELSE services
    /\ graph_edges' = IF "graph_edges" \in regen.cascade THEN <<>> ELSE graph_edges
    /\ regen' = [regen EXCEPT !.pc = "services",
                              !.old = [pipes |-> synth_pipes, nodes |-> graph_nodes,
                                       edges |-> graph_edges]]
    /\ UNCHANGED <<graph_nodes, last_spread, query, loader, buildings, req, resp, batch, history>>

\* the pipe LATERAL ... ORDER BY p.geom <-> centroid LIMIT 1 gives building b:
\* the nearest secondary pipe, none when no secondary pipe has a geometry
NearestPipe(pipe_rows, b) ==
    LET secondary == {p \in DOMAIN pipe_rows :
                        /\ pipe_rows[p].class = "secondary"
                        /\ pipe_rows[p].start # NoPoint /\ pipe_rows[p].end # NoPoint}
    IN {p \in secondary :
          \A x \in secondary : ServiceDistance(b, p) <= ServiceDistance(b, x)}

\* one service for every building whose nearest pipe is within the distance
GeneratedServices(bld, pipe_rows) ==
    LET served == {b \in bld :
                     \E p \in NearestPipe(pipe_rows, b) :
                         ServiceDistance(b, p) <= ServiceMaxDistance}
        order == SortedSeq(served)
    IN [i \in 1..Len(order) |->
          LET p == CHOOSE x \in NearestPipe(pipe_rows, order[i]) : TRUE
          IN [building_id |-> order[i], pipe_id |-> p,
              length_m |-> ServiceDistance(order[i], p)]]

\* generate_services, one transaction (generate_nodes, before it, writes
\* synth.nodes, which nothing here reads)
GenerateServices ==
    /\ regen.pc = "services"
    /\ services' = GeneratedServices(buildings, synth_pipes)
    /\ regen' = [regen EXCEPT !.pc = "build"]
    /\ UNCHANGED <<synth_pipes, graph_nodes, last_spread, query, loader, graph_edges, buildings, req, resp,
                   batch, history>>

\* endpoints: the start and the end of every pipe
Endpoints(pipe_rows) ==
    {[endpoint_type |-> "start", pipe_id |-> p, pt |-> pipe_rows[p].start] :
        p \in DOMAIN pipe_rows}
    \cup {[endpoint_type |-> "end", pipe_id |-> p, pt |-> pipe_rows[p].end] :
            p \in DOMAIN pipe_rows}

\* ST_ClusterDBSCAN(pt, eps, minpoints := 1): the points chained to those of S
\* by steps of at most eps
RECURSIVE ClusterDBSCAN(_, _)
ClusterDBSCAN(S, pts) ==
    LET T == S \cup {q \in pts : \E x \in S : q - x <= SnapTolerance /\ x - q <= SnapTolerance}
    IN IF T = S THEN S ELSE ClusterDBSCAN(T, pts)

\* clustered: the cluster of an endpoint row, no cluster for a NULL point
ClusterId(pipe_rows, row) ==
    IF row.pt = NoPoint THEN {}
    ELSE ClusterDBSCAN({row.pt}, {x.pt : x \in Endpoints(pipe_rows)} \ {NoPoint})

NoGeom == [sum |-> 0, count |-> 0]

\* ST_Centroid(ST_Collect(pt)) of the endpoint rows of a cluster
Centroid(pipe_rows, cluster_id) ==
    LET rows == {x \in Endpoints(pipe_rows) : x.pt \in cluster_id}
    IN IF cluster_id = {} THEN NoGeom
       ELSE [sum |-> SumOver([x \in rows |-> x.pt], rows), count |-> Cardinality(rows)]

\* cluster_centroids: one row per cluster id, the NULL one included
ClusterCentroids(pipe_rows) ==
    {ClusterId(pipe_rows, row) : row \in Endpoints(pipe_rows)}

RECURSIVE ClusterOrder(_)
ClusterOrder(clusters) ==
    IF clusters = {} THEN <<>>
    ELSE LET first == CHOOSE c \in clusters :
                         /\ c # {} \/ clusters = {{}}
                         /\ \A d \in clusters \ {{}} : \A x \in c : \E y \in d : x <= y
         IN <<first>> \o ClusterOrder(clusters \ {first})

\* INSERT INTO synth.graph_nodes (geom) SELECT geom FROM cluster_centroids:
\* ids from 1 (RESTART IDENTITY); no statement compares node ids, so the
\* rows are numbered from west to east, the row without a geometry last
BuildNodes(pipe_rows) ==
    LET order == ClusterOrder(ClusterCentroids(pipe_rows))
    IN [n \in 1..Len(order) |-> [geom |-> Centroid(pipe_rows, order[n])]]

\* ST_DWithin(n.geom, node_geom, 0.000001); never true of a NULL geometry
DWithin(a, b) == a.count > 0 /\ b.count > 0 /\ a.sum * b.count = b.sum * a.count

\* (SELECT n.id FROM synth.graph_nodes n WHERE ST_DWithin(...) LIMIT 1):
\* the ids the sub-select may give, NoNode (NULL) when no node is near
NodeLookup(nodes, node_geom) ==
    LET near == {n \in DOMAIN nodes : DWithin(nodes[n].geom, node_geom)}
    IN IF near = {} THEN {NoNode} ELSE near

\* pipe_endpoints: clustered JOIN cluster_centroids ON cluster_id; a row
\* without a cluster id joins nothing
PipeEndpoints(pipe_rows) ==
    {[pipe_id |-> row.pipe_id, endpoint_type |-> row.endpoint_type,
      node_geom |-> Centroid(pipe_rows, ClusterId(pipe_rows, row))] :
        row \in {x \in Endpoints(pipe_rows) : ClusterId(pipe_rows, x) # {}}}

EdgePipes_All(pipe_rows, pipe_nodes) == DOMAIN pipe_rows

\* the pipes that get an edge: those with a pipe_nodes row (a start and an
\* end row in pipe_endpoints) WHERE source_id IS NOT NULL AND target_id IS
\* NOT NULL
EdgePipes(pipe_rows, pipe_nodes) ==
    {p \in DOMAIN pipe_rows :
        /\ p \in DOMAIN pipe_nodes
        /\ pipe_nodes[p].source_id # NoNode
        /\ pipe_nodes[p].target_id # NoNode}

\* the geometry a pipe end is looked up with; NoGeom when pipe_endpoints has
\* no row for it
EndGeom(pipe_rows, p, endpoint_type) ==
    LET rows == {x \in PipeEndpoints(pipe_rows) :
                    x.pipe_id = p /\ x.endpoint_type = endpoint_type}
    IN IF rows = {} THEN NoGeom ELSE (CHOOSE x \in rows : TRUE).node_geom

\* the rows of pipe_nodes for the pipes of `todo`, with the node each
\* LIMIT 1 gave: pipe -> [source_id, target_id]
RECURSIVE PipeNodesOf(_, _, _)
PipeNodesOf(pipe_rows, nodes, todo) ==
    IF todo = {} THEN {<<>>}
    ELSE LET p == CHOOSE x \in todo : TRUE
         IN {(p :> [source_id |-> s, target_id |-> t]) @@ f :
                s \in NodeLookup(nodes, EndGeom(pipe_rows, p, "start")),
                t \in NodeLookup(nodes, EndGeom(pipe_rows, p, "end")),
                f \in PipeNodesOf(pipe_rows, nodes, todo \ {p})}

\* pipe_nodes: a row for every pipe with a start and an end row in
\* pipe_endpoints
PipeNodesChoices(pipe_rows, nodes) ==
    PipeNodesOf(pipe_rows, nodes,
                {p \in DOMAIN pipe_rows :
                    /\ EndGeom(pipe_rows, p, "start") # NoGeom
                    /\ EndGeom(pipe_rows, p, "end") # NoGeom})

\* INSERT INTO synth.graph_edges ... FROM synth.pipes p JOIN pipe_nodes pn:
\* ids from 1 in the order of the pipes, the score at its default
BuildEdges(pipe_rows, pipe_nodes) ==
    LET order == SortedSeq(EdgePipes(pipe_rows, pipe_nodes))
    IN [e \in 1..Len(order) |->
          [source_id |-> IF order[e] \in DOMAIN pipe_nodes
                         THEN pipe_nodes[order[e]].source_id ELSE NoNode,
           target_id |-> IF order[e] \in DOMAIN pipe_nodes
                         THEN pipe_nodes[order[e]].target_id ELSE NoNode,
           pipe_id |-> order[e], affected_building_count |-> 0]]

\* build_graph: TRUNCATE synth.graph_edges, TRUNCATE synth.graph_nodes
BuildGraphTruncate ==
    /\ regen.pc = "build"
    /\ TruncateAllowed
    /\ regen' = [regen EXCEPT !.pc = "nodes", !.new_nodes = <<>>, !.new_edges = <<>>]
    /\ UNCHANGED <<synth_pipes, graph_nodes, last_spread, query, loader, graph_edges, services, buildings,
                   req, resp, batch, history>>

BuildGraphNodes ==
    /\ regen.pc = "nodes"
    /\ regen' = [regen EXCEPT !.pc = "edges", !.new_nodes = BuildNodes(synth_pipes)]
    /\ UNCHANGED <<synth_pipes, graph_nodes, last_spread, query, loader, graph_edges, services, buildings,
                   req, resp, batch, history>>

BuildGraphEdges ==
    /\ regen.pc = "edges"
    /\ \E pipe_nodes \in PipeNodesChoices(synth_pipes, regen.new_nodes) :
         regen' = [regen EXCEPT !.pc = "commit",
                                !.new_edges = BuildEdges(synth_pipes, pipe_nodes)]
    /\ UNCHANGED <<synth_pipes, graph_nodes, last_spread, query, loader, graph_edges, services, buildings,
                   req, resp, batch, history>>

\* conn.commit(): the new nodes and edges replace the old ones together
BuildGraphCommit ==
    /\ regen.pc = "commit"
    /\ graph_edges' = regen.new_edges
    /\ graph_nodes' = regen.new_nodes
    /\ regen' = [regen EXCEPT !.pc = "done", !.runs = @ + 1,
                              !.new_nodes = <<>>, !.new_edges = <<>>, !.old = NoNetwork]
    /\ UNCHANGED <<synth_pipes, last_spread, query, loader, services, buildings, req, resp, batch, history>>

BuildGraph == BuildGraphTruncate \/ BuildGraphNodes \/ BuildGraphEdges \/ BuildGraphCommit

NextRegen == GeneratePipes \/ GenerateServices \/ BuildGraph

\* --------------------------------------- scripts/load-osm.py (insert_buildings)
NoTransaction == [truncated |-> FALSE, restore |-> 0, rows |-> <<>>]

\* insert_buildings(conn, buildings): TRUNCATE osm.buildings RESTART IDENTITY
\* CASCADE, not committed.  The list holds the buildings fetched, numbered by
\* their osm id; the INSERT of a building whose polygon the database rejects
\* raises.
LoadStart ==
    /\ loader.pc = "idle"
    /\ \E n \in 0..MaxInput :
         \E valid \in [1..n -> BOOLEAN] :
            loader' = [loader EXCEPT
                          !.pc = "insert",
                          !.input = [i \in 1..n |-> [osm_id |-> i, valid |-> valid[i]]],
                          !.i = 0,
                          !.txn = [truncated |-> TRUE, restore |-> loader.seq, rows |-> <<>>],
                          !.seq = 1]
    /\ UNCHANGED <<buildVars, last_spread, query, graph_edges, services, buildings, req, resp,
                   batch, history>>

\* conn.rollback(): everything since the last commit is undone, the TRUNCATE
\* and the restart of the sequence with it; values drawn from a sequence
\* that was not restarted in the transaction stay drawn
Rollback(ld) ==
    [ld EXCEPT !.txn = NoTransaction,
               !.seq = IF ld.txn.truncated THEN ld.txn.restore ELSE @]

\* one iteration of the loop: the INSERT, or the except branch
LoadInsert ==
    /\ loader.pc = "insert"
    /\ loader.i < Len(loader.input)
    /\ LET bldg == loader.input[loader.i + 1]
       IN IF bldg.valid
          THEN loader' = [loader EXCEPT
                             !.i = @ + 1,
                             !.txn.rows = Append(@, [id |-> loader.seq,
                                                     osm_id |-> bldg.osm_id]),
                             !.seq = @ + 1,
                             !.inserted = @ \cup {bldg.osm_id}]
          ELSE loader' = [Rollback(loader) EXCEPT !.i = @ + 1]
    /\ UNCHANGED <<buildVars, last_spread, query, graph_edges, services, buildings, req, resp,
                   batch, history>>

\* conn.commit() after the loop: what the open transaction holds becomes
\* the table
LoadCommit ==
    /\ loader.pc = "insert"
    /\ loader.i = Len(loader.input)
    /\ LET kept == IF loader.txn.truncated THEN <<>> ELSE loader.osm_id
           rows == loader.txn.rows
           new == [id \in {rows[k].id : k \in DOMAIN rows} |->
                     (CHOOSE r \in Range(rows) : r.id = id).osm_id]
       IN /\ loader' = [loader EXCEPT !.pc = "done", !.osm_id = new @@ kept,
                                      !.txn = NoTransaction]
          /\ buildings' = DOMAIN (new @@ kept)
    /\ UNCHANGED <<buildVars, last_spread, query, graph_edges, services, req, resp, batch,
                   history>>

NextLoad == LoadStart \/ LoadInsert \/ LoadCommit

\* the loader runs before the network is generated: buildings of an earlier
\* load, no pipes, services or graph
InitLoad ==
    /\ synth_pipes = <<>>
    /\ graph_edges = <<>>
    /\ graph_nodes = <<>>
    /\ services = <<>>
    /\ \E nb \in 0..MaxBuildings : buildings = 1..nb
    /\ req = Idle
    /\ resp = NoResponse
    /\ batch = BatchIdle
    /\ history = <<>>
    /\ regen = RegenIdle
    /\ last_spread = NoResponse
    /\ query = NoQuery
    /\ loader = LoaderIdle(buildings)

SpecLoad == InitLoad /\ [][NextLoad]_vars

ApiStep ==
    \/ OutageCheck \/ OutageRun \/ NearbyCheck \/ NearbyRun
    \/ WorstDaySelect \/ WorstDayRun \/ Respond

\* The API reads committed rows only and the batch commits once, at its end:
\* a request served while the batch runs sees the store of before the run.
\* The service is therefore run with requests between batch runs.
Next ==
    \/ batch.pc \in {"idle", "done", "failed"} /\ ApiStep
    \/ req.pc = "idle" /\ resp = NoResponse /\ NextBatch

Spec == Init /\ [][Next]_vars

\* The six read operations on a store whose scores the batch has computed:
\* the batch runs once, then the service is queried.
NextQueries ==
    \/ /\ batch.pc \in {"done", "failed"}
       /\ \/ ApiStep
          \/ GraphStatus
          \/ NearestEdge \/ SpreadNearest \/ SpreadSource \/ SpreadRun
    \/ history = <<>> /\ req.pc = "idle" /\ resp = NoResponse /\ NextBatch

\* the store as generate_services leaves it: at most one service a building
InitQueries ==
    /\ Init
    /\ \A s1, s2 \in DOMAIN services :
          services[s1].building_id = services[s2].building_id => s1 = s2

SpecQueries == InitQueries /\ [][NextQueries]_vars

\* build_graph on its own, on every set of pipes: a pipe end is one of three
\* points, two of them within the snap tolerance, or missing
PipeRowSet == [start : {0, 1, 3, NoPoint}, end : {0, 1, 3, NoPoint}, class : {"secondary"}]

InitBuild ==
    /\ \E n \in 0..MaxPipes : synth_pipes \in [1..n -> PipeRowSet]
    /\ graph_edges = <<>>
    /\ graph_nodes = <<>>
    /\ services = <<>>
    /\ buildings = {}
    /\ req = Idle
    /\ resp = NoResponse
    /\ batch = BatchIdle
    /\ history = <<>>
    /\ regen = [RegenIdle EXCEPT !.pc = "build"]
    /\ last_spread = NoResponse
    /\ query = NoQuery
    /\ loader = LoaderIdle(buildings)

SpecBuild == InitBuild /\ [][BuildGraph]_vars

\* The service next to the two scripts: a database whose network tables are
\* still empty, the buildings loaded, under either answer to whether
\* synth.services and synth.graph_edges reference synth.pipes.
InitRegen ==
    /\ synth_pipes = <<>>
    /\ graph_edges = <<>>
    /\ graph_nodes = <<>>
    /\ services = <<>>
    /\ \E nb \in 0..MaxBuildings : buildings = 1..nb
    /\ req = Idle
    /\ resp = NoResponse
    /\ batch = BatchIdle
    /\ history = <<>>
    /\ \E c \in SUBSET {"services", "graph_edges"} : regen = [RegenIdle EXCEPT !.cascade = c]
    /\ last_spread = NoResponse
    /\ query = NoQuery
    /\ loader = LoaderIdle(buildings)

NextRegenBatch == NextRegen \/ NextBatch

SpecRegenBatch == InitRegen /\ [][NextRegenBatch]_vars

\* The five reads against the regeneration: a step of the regeneration may
\* come before a request and between any two of its statements (a response,
\* once computed, is delivered before the scripts go on).  The batch
\* provides the scores worst_day reads and is run once, while nothing else
\* is running.
NextRegenApi ==
    \/ resp = NoResponse /\ NextRegen
    \/ ApiStep
    \/ NearestEdge \/ SpreadNearest \/ SpreadSource \/ SpreadRun
    \/ /\ req.pc = "idle" /\ resp = NoResponse /\ regen.pc = "done"
       /\ history = <<>>
       /\ NextBatch

SpecRegenApi == InitRegen /\ [][NextRegenApi]_vars

\* ======================================================= properties checked
\* Connectivity stated on its own terms: the nodes joined to S by edges
\* other than the excluded ones.
RECURSIVE Component(_, _, _)
Component(S, edges, excluded) ==
    LET T == S \cup {n \in NodeIds :
                        \E e \in (DOMAIN edges) \ excluded :
                            \/ edges[e].source_id \in S /\ edges[e].target_id = n
                            \/ edges[e].target_id \in S /\ edges[e].source_id = n}
    IN IF T = S THEN S ELSE Component(T, edges, excluded)

\* nodes joined to the hub on the full graph and no longer without edge e
CutNodes(hub, e) ==
    Component({hub}, graph_edges, {}) \ Component({hub}, graph_edges, {e})

CutPipes(hub, e) ==
    {graph_edges[x].pipe_id : x \in {y \in DOMAIN graph_edges :
        graph_edges[y].source_id \in CutNodes(hub, e)
        \/ graph_edges[y].target_id \in CutNodes(hub, e)}}

CutServices(hub, e) == {s \in DOMAIN services : services[s].pipe_id \in CutPipes(hub, e)}

CutBuildings(hub, e) == {services[s].building_id : s \in CutServices(hub, e)}

RECURSIVE LengthSum(_)
LengthSum(S) ==
    IF S = {} THEN 0
    ELSE LET s == CHOOSE x \in S : TRUE IN services[s].length_m + LengthSum(S \ {s})

OutageOk == resp.op = "outage" /\ resp.status = 200

C2_ExactlyCutBuildings ==
    OutageOk =>
        /\ Range(resp.features) = CutBuildings(resp.hub, resp.edge_id)
        /\ Cardinality(Range(resp.features)) = Len(resp.features)

C2_Witness ==
    /\ OutageOk
    /\ resp.features # <<>>
    /\ buildings \ Range(resp.features) # {}
    /\ \E s \in DOMAIN services : services[s].building_id \notin Range(resp.features)

\* C3 as written: the service count is the number of services on an affected
\* pipe and the total length is the sum of their lengths.
C3_ExactTotal ==
    OutageOk =>
        /\ resp.stats.affected_service_count =
              Cardinality(CutServices(resp.hub, resp.edge_id))
        /\ resp.stats.total_service_length_m =
              LengthSum(CutServices(resp.hub, resp.edge_id))

\* C3 (amended): the service count is the number of services on an affected
\* pipe and the total length is the sum of their lengths rounded to the
\* nearest tenth of a metre.
C3_RoundedTotal ==
    OutageOk =>
        LET sum == LengthSum(CutServices(resp.hub, resp.edge_id))
            total == resp.stats.total_service_length_m
        IN /\ resp.stats.affected_service_count =
                 Cardinality(CutServices(resp.hub, resp.edge_id))
           /\ total % 10 = 0
           /\ total - sum <= 5 /\ sum - total <= 5

C3_Witness ==
    /\ OutageOk
    /\ resp.stats.affected_service_count = MaxServices
    /\ Len(resp.features) < resp.stats.affected_service_count
    /\ resp.stats.total_service_length_m #
          LengthSum(CutServices(resp.hub, resp.edge_id))

\* C4: an outage of an edge whose removal cuts no node off from the hub
\* answers 200 with no feature and all three stats zero.
C4_NonBridgeEmpty ==
    /\ (resp.op = "outage" /\ resp.edge_id \in DOMAIN graph_edges) => resp.status = 200
    /\ (OutageOk /\ CutNodes(resp.hub, resp.edge_id) = {}) =>
          /\ resp.features = <<>>
          /\ resp.stats = [affected_building_count |-> 0, affected_service_count |-> 0,
                           total_service_length_m |-> 0]

C4_Witness ==
    /\ OutageOk
    /\ CutNodes(resp.hub, resp.edge_id) = {}
    /\ graph_edges[resp.edge_id].source_id # graph_edges[resp.edge_id].target_id
    /\ graph_edges[resp.edge_id].source_id \in Component({resp.hub}, graph_edges, {})
    /\ \E s \in DOMAIN services : services[s].pipe_id = graph_edges[resp.edge_id].pipe_id

\* C5: outage and nearby_edges answer 404 exactly when no edge has the
\* requested id, and the existence check is the first statement of the
\* request and the only one of a 404.
C5_NotFoundIffUnknown ==
    /\ resp.op \in {"outage", "nearby_edges"} =>
          /\ (resp.status = 404) <=> (resp.edge_id \notin DOMAIN graph_edges)
          /\ (resp.status = 200) <=> (resp.edge_id \in DOMAIN graph_edges)
          /\ resp.log[1] = "exists"
          /\ resp.status = 404 => resp.log = <<"exists">>
    /\ req.op \in {"outage", "nearby_edges"} =>
          /\ req.edge_id \in DOMAIN graph_edges
          /\ req.log = <<"exists">>

C5_Witness ==
    /\ resp.op = "nearby_edges"
    /\ resp.status = 404
    /\ DOMAIN graph_edges # {}

\* C6: in every outage and worst_day response, with or without a worst
\* pipe, stats.affected_building_count is the number of features.
C6_CountIsFeatureCount ==
    (resp.op \in {"outage", "worst_day"} /\ resp.status = 200) =>
        resp.stats.affected_building_count = Len(resp.features)

C6_Witness ==
    /\ resp.op = "worst_day"
    /\ resp.worst_pipe # NoEdge
    /\ Len(resp.features) = MaxBuildings

\* buildings all of whose services are on a pipe affected by removing e
LoseAllService(hub, e) ==
    {b \in buildings :
        /\ \E s \in DOMAIN services : services[s].building_id = b
        /\ \A s \in DOMAIN services :
              services[s].building_id = b => s \in CutServices(hub, e)}

C8_SecondRunSameScores ==
    Len(history) = 2 => history[2] = history[1]

\* C9: once the batch has run, the count an outage request reports for an
\* edge is the score the batch persisted for it.
C9_OutageEqualsScore ==
    (OutageOk /\ batch.pc = "done") =>
        resp.stats.affected_building_count =
            graph_edges[resp.edge_id].affected_building_count

\* positions of a statement in the log of the run
LogIndex(name) == {i \in DOMAIN batch.log : batch.log[i].stmt = name}

\* C10: in a run that has reached its loop, the hub and the full-graph
\* reachable set were each computed once, before any after-reachability;
\* every after-reachability was subtracted from that one set; and each edge
\* processed so far had its after-reachability computed once.
C10_BeforeComputedOnce ==
    batch.pc \in {"loop", "done"} =>
        /\ Cardinality(LogIndex("hub")) = 1
        /\ Cardinality(LogIndex("full")) = 1
        /\ \A i \in LogIndex("after") :
              /\ \A j \in LogIndex("hub") \cup LogIndex("full") : j < i
              /\ batch.log[i].before = Component({batch.hub_node}, graph_edges, {})
        /\ \A k \in 1..Len(batch.edge_ids) :
              Cardinality({i \in LogIndex("after") :
                              batch.log[i].edge = batch.edge_ids[k]})
                 = IF k <= batch.processed THEN 1 ELSE 0

C10_Witness ==
    /\ batch.pc = "done"
    /\ Len(batch.edge_ids) = MaxEdges
    /\ Cardinality(LogIndex("after")) = MaxEdges

\* the nodes within k hops of the nodes of S, edges taken in both directions
RECURSIVE Within(_, _)
Within(S, k) ==
    IF k = 0 THEN S
    ELSE Within(S \cup {n \in NodeIds :
                          \E e \in DOMAIN graph_edges :
                              \/ graph_edges[e].source_id \in S /\ graph_edges[e].target_id = n
                              \/ graph_edges[e].target_id \in S /\ graph_edges[e].source_id = n},
                k - 1)

\* the hop distances, up to max, at which node n is within reach of src
HopsWithin(src, n, max) == {k \in 0..max : n \in Within({src}, k)}

Least(S) == CHOOSE x \in S : \A y \in S : x <= y

SpreadOk == resp.op = "spread" /\ resp.status = 200

\* C11: every edge of a spread response has as hop the smaller of the hop
\* distances of its endpoints from the origin node, an endpoint further than
\* max_hops left out, and that hop lies between 0 and max_hops.
C11_HopIsMinOfEndpoints ==
    SpreadOk =>
        \A i \in DOMAIN resp.features :
            LET f == resp.features[i]
                e == graph_edges[f.edge_id]
                reached == HopsWithin(resp.source_node, e.source_id, resp.max_hops)
                           \cup HopsWithin(resp.source_node, e.target_id, resp.max_hops)
            IN /\ reached # {}
               /\ f.hop = Least(reached)
               /\ f.hop >= 0 /\ f.hop <= resp.max_hops

C11_Witness ==
    /\ SpreadOk
    /\ \E i \in DOMAIN resp.features :
          LET f == resp.features[i]
              e == graph_edges[f.edge_id]
          IN /\ f.hop = resp.max_hops /\ f.hop = 2
             /\ HopsWithin(resp.source_node, e.source_id, resp.max_hops) # {}
             /\ HopsWithin(resp.source_node, e.target_id, resp.max_hops) = {}

\* C12: a spread response has the same edges, with the same hops, in the same
\* order as the previous spread response for the same point and max_hops.
C12_SameAsLastSpread ==
    (SpreadOk /\ last_spread.op = "spread"
        /\ last_spread.point = resp.point /\ last_spread.max_hops = resp.max_hops) =>
        resp.features = last_spread.features

C12_Witness ==
    /\ SpreadOk /\ last_spread.op = "spread"
    /\ last_spread.point = resp.point /\ last_spread.max_hops = resp.max_hops
    /\ Len(resp.features) >= 2
    /\ \E x \in DOMAIN graph_edges :
          /\ x # resp.edge_id
          /\ DistanceMeters(resp.point, x) = DistanceMeters(resp.point, resp.edge_id)

\* C13: a spread starts at the source node of the edge nearest to the point;
\* that edge is in the response with hop 0; and the edges of the response are
\* exactly the edges with an endpoint within max_hops hops of that node.
C13_FromSourceOfNearest ==
    SpreadOk =>
        /\ resp.edge_id \in DOMAIN graph_edges
        /\ \A x \in DOMAIN graph_edges :
              DistanceMeters(resp.point, resp.edge_id) <= DistanceMeters(resp.point, x)
        /\ resp.source_node = graph_edges[resp.edge_id].source_id
        /\ \E i \in DOMAIN resp.features :
              resp.features[i] = [edge_id |-> resp.edge_id, hop |-> 0]
        /\ {resp.features[i].edge_id : i \in DOMAIN resp.features} =
              {e \in DOMAIN graph_edges :
                  \/ graph_edges[e].source_id \in Within({resp.source_node}, resp.max_hops)
                  \/ graph_edges[e].target_id \in Within({resp.source_node}, resp.max_hops)}

C13_Witness ==
    /\ SpreadOk
    /\ graph_edges[resp.edge_id].source_id # graph_edges[resp.edge_id].target_id
    /\ \E e \in DOMAIN graph_edges :
          /\ e \notin {resp.features[i].edge_id : i \in DOMAIN resp.features}
          /\ graph_edges[e].source_id \in Within({resp.source_node}, MaxEdges)

\* C14: the edges of a spread response come by hop ascending and, within one
\* hop, by edge id ascending, and no edge id comes twice.
C14_OrderedByHopThenId ==
    SpreadOk =>
        \A i, j \in DOMAIN resp.features :
            i < j =>
                /\ resp.features[i].edge_id # resp.features[j].edge_id
                /\ \/ resp.features[i].hop < resp.features[j].hop
                   \/ /\ resp.features[i].hop = resp.features[j].hop
                      /\ resp.features[i].edge_id < resp.features[j].edge_id

C14_Witness ==
    /\ SpreadOk
    /\ Len(resp.features) = MaxEdges
    /\ \E i, j \in DOMAIN resp.features :
          /\ i < j
          /\ resp.features[i].edge_id > resp.features[j].edge_id
    /\ \E i, j \in DOMAIN resp.features :
          /\ i < j
          /\ resp.features[i].hop = resp.features[j].hop

\* C15: nearest_edge answers with an edge no further from the point than any
\* other edge, the one of smallest id among the edges at that distance, and
\* answers 404 when the graph has no edge.
C15_NearestSmallestId ==
    resp.op = "nearest_edge" =>
        /\ resp.status \in {200, 404}
        /\ resp.status = 200 =>
              /\ resp.edge_id \in DOMAIN graph_edges
              /\ resp.distance_meters = DistanceMeters(resp.point, resp.edge_id)
              /\ \A x \in DOMAIN graph_edges :
                    /\ resp.distance_meters <= DistanceMeters(resp.point, x)
                    /\ DistanceMeters(resp.point, x) = resp.distance_meters
                          => resp.edge_id <= x
        /\ DOMAIN graph_edges = {} => resp.status = 404

C15_Witness ==
    /\ resp.op = "nearest_edge" /\ resp.status = 200
    /\ resp.edge_id > 1
    /\ \E x \in DOMAIN graph_edges :
          /\ x > resp.edge_id
          /\ DistanceMeters(resp.point, x) = resp.distance_meters

\* C16: when some edge has a score above zero, worst_day names an edge whose
\* score is at least the score of every edge; when none has, it answers 200
\* with no feature, all three stats zero, no worst pipe and its fixed message.
C16_WorstIsMaxScore ==
    resp.op = "worst_day" =>
        /\ resp.status = 200
        /\ IF \E e \in DOMAIN graph_edges : graph_edges[e].affected_building_count > 0
           THEN /\ resp.worst_pipe \in DOMAIN graph_edges
                /\ \A x \in DOMAIN graph_edges :
                      graph_edges[x].affected_building_count <=
                          graph_edges[resp.worst_pipe].affected_building_count
                /\ resp.dramatic_message.template \in MessageTemplates
           ELSE resp = WorstDayEmpty

C16_Witness ==
    /\ resp.op = "worst_day"
    /\ resp.worst_pipe # NoEdge
    /\ \E x \in DOMAIN graph_edges :
          /\ graph_edges[x].affected_building_count > 0
          /\ graph_edges[x].affected_building_count <
                graph_edges[resp.worst_pipe].affected_building_count

\* the batch is between its first statement and its commit
BatchRunning == batch.pc \in {"hub", "full", "ids", "loop"}

\* C17: the batch is never between its first statement and its commit while
\* build_graph is between its TRUNCATE and its commit, and while the batch
\* is there the committed graph changes by nothing but the batch's own
\* commit: the scores it writes go to the edges it read.
C17_BatchNeverInsideRebuild ==
    [][/\ ~(GraphLocked /\ BatchRunning)
       /\ ~(GraphLocked' /\ BatchRunning')
       /\ BatchRunning =>
             \/ graph_edges' = graph_edges
             \/ /\ batch'.pc = "done"
                /\ graph_edges' = ApplyUpdates(graph_edges, batch.pending)]_vars

C17_Witness ==
    /\ regen.pc = "build" /\ regen.runs >= 1
    /\ batch.pc = "loop" /\ batch.processed >= 1
    /\ DOMAIN graph_edges # {}
    /\ Cardinality(DOMAIN synth_pipes) # Cardinality(DOMAIN graph_edges)

\* a request is between its first statement and its response
RequestInProgress == req.pc # "idle"

\* C18: a request is never between two of its statements while build_graph
\* is between its TRUNCATE and its commit, and the committed graph does not
\* change while a request is in progress: all its statements read one graph.
C18_OneGraphPerRequest ==
    [][/\ ~(GraphLocked /\ RequestInProgress)
       /\ ~(GraphLocked' /\ RequestInProgress')
       /\ RequestInProgress => graph_edges' = graph_edges]_vars

C18_Witness ==
    /\ regen.pc = "build" /\ regen.runs >= 1
    /\ req.op = "spread" /\ req.pc = "query"
    /\ req.source_node # NoNode
    /\ Cardinality(DOMAIN graph_edges) # Cardinality(DOMAIN synth_pipes)

\* the stored edges without their scores
Structure(edges) ==
    [e \in DOMAIN edges |->
        [source_id |-> edges[e].source_id, target_id |-> edges[e].target_id,
         pipe_id |-> edges[e].pipe_id]]

\* C19: from the start of a regeneration run to the commit of build_graph
\* the committed nodes and edges are those the run found, none missing, and
\* every committed edge still finds under its pipe id the pipe it was built
\* from.
C19_OldGraphUntilCommit ==
    regen.pc \in {"services", "build", "nodes", "edges", "commit"} =>
        /\ Structure(graph_edges) = Structure(regen.old.edges)
        /\ graph_nodes = regen.old.nodes
        /\ \A e \in DOMAIN graph_edges :
              /\ graph_edges[e].pipe_id \in DOMAIN synth_pipes
              /\ synth_pipes[graph_edges[e].pipe_id] = regen.old.pipes[graph_edges[e].pipe_id]

\* C20: after build_graph, every edge has a source and a target among the
\* stored nodes, no two edges come from one pipe, every edge comes from a
\* stored pipe, and a pipe without a start or an end point has no edge.
C20_EdgesResolved ==
    regen.pc = "done" =>
        /\ \A e \in DOMAIN graph_edges :
              /\ graph_edges[e].source_id \in DOMAIN graph_nodes
              /\ graph_edges[e].target_id \in DOMAIN graph_nodes
              /\ graph_edges[e].pipe_id \in DOMAIN synth_pipes
        /\ \A e1, e2 \in DOMAIN graph_edges :
              graph_edges[e1].pipe_id = graph_edges[e2].pipe_id => e1 = e2
        /\ \A p \in DOMAIN synth_pipes :
              (synth_pipes[p].start = NoPoint \/ synth_pipes[p].end = NoPoint) =>
                  \A e \in DOMAIN graph_edges : graph_edges[e].pipe_id # p

C20_Witness ==
    /\ regen.pc = "done"
    /\ Cardinality(DOMAIN graph_edges) = 2
    /\ \E p \in DOMAIN synth_pipes : synth_pipes[p].start # NoPoint /\ synth_pipes[p].end = NoPoint
    /\ \E n \in DOMAIN graph_nodes :
          graph_nodes[n].geom.count >= 2
          /\ graph_nodes[n].geom.sum % graph_nodes[n].geom.count # 0

\* the query string of the last request has a missing coordinate or a hop
\* count out of range
QueryInvalid ==
    \/ query.op \in {"nearest_edge", "spread"} /\ (query.lon = Omitted \/ query.lat = Omitted)
    \/ query.op = "nearby_edges" /\ query.hops # Omitted /\ query.hops \notin 1..10
    \/ query.op = "spread" /\ query.max_hops # Omitted /\ query.max_hops \notin 1..20

\* C21: a request is answered 422 exactly when a coordinate is missing or
\* its hop count is out of range (1..10 for nearby_edges, 1..20 for spread),
\* the 422 comes without any statement having run, and a request that goes
\* on uses the hop count sent, 1 for an omitted hops and 5 for an omitted
\* max_hops.
C21_InvalidRejectedFirst ==
    /\ resp.op = query.op /\ resp.op # "none" =>
          /\ QueryInvalid <=> resp.status = 422
          /\ resp.status = 422 => resp.log = <<>>
          /\ (resp.op = "spread" /\ resp.status # 422) =>
                resp.max_hops = IF query.max_hops = Omitted THEN 5 ELSE query.max_hops
    /\ req.pc # "idle" =>
          /\ req.op = query.op
          /\ ~QueryInvalid
          /\ req.op = "spread" =>
                req.max_hops = IF query.max_hops = Omitted THEN 5 ELSE query.max_hops
          /\ req.op = "nearby_edges" =>
                req.hops = IF query.hops = Omitted THEN 1 ELSE query.hops

C21_Witness ==
    /\ resp.op = "spread" /\ resp.status = 422
    /\ query.lon # Omitted /\ query.lat # Omitted /\ query.max_hops = 21
    /\ DOMAIN graph_edges = {}

\* C22: whatever requests (status, nearest_edge, nearby_edges, outage, spread,
\* worst_day) have been served, the stored edges and nodes are those the
\* pipes were built into, none missing, the edge an outage leaves out of its
\* traversal included, and the scores are those of the last batch commit.
C22_QueriesKeepStore ==
    /\ DOMAIN graph_edges = 1..(Len(synth_pipes) - 1)
    /\ synth_pipes = BuiltFrom(graph_edges)
    /\ graph_nodes = NodesOf(graph_edges)
    /\ Scores(graph_edges) =
          IF history = <<>> THEN [e \in DOMAIN graph_edges |-> 0]
          ELSE history[Len(history)]

C22_Witness ==
    /\ OutageOk
    /\ resp.features # <<>>
    /\ resp.edge_id \in DOMAIN graph_edges
    /\ graph_edges[resp.edge_id].affected_building_count > 0
    /\ Cardinality(DOMAIN graph_edges) = MaxEdges

\* the number of edge ends at node n in the stored graph
Degree(n) ==
    Cardinality({x \in (DOMAIN graph_edges) \X {"source", "target"} :
        IF x[2] = "source" THEN graph_edges[x[1]].source_id = n
        ELSE graph_edges[x[1]].target_id = n})

IsMaxDegree(h) == Degree(h) >= 1 /\ \A n \in NodeIds : Degree(n) <= Degree(h)

\* C23: the hub of an outage response, of a worst_day response that names a
\* pipe, and of a batch run in progress is a node of the graph as stored at
\* that time with at least as many edge ends as any other node.
C23_HubHasMaxDegree ==
    /\ OutageOk => IsMaxDegree(resp.hub)
    /\ (resp.op = "worst_day" /\ resp.worst_pipe # NoEdge) => IsMaxDegree(resp.hub)
    /\ batch.pc \in {"full", "ids", "loop"} => IsMaxDegree(batch.hub_node)

C23_Witness ==
    /\ OutageOk
    /\ regen.runs = 2
    /\ batch.pc = "done"
    /\ ~IsMaxDegree(batch.hub_node)
    /\ Degree(batch.hub_node) >= 1

\* the scores the last finished run wrote
Written == history[Len(history)]

\* C24: when a run has finished, the maximum it reports is the largest score
\* it wrote and the edge it reports is the edge of smallest id with that
\* score; when every score it wrote is zero the maximum is 0 and it reports
\* no edge.
C24_ReportsFirstMaximum ==
    batch.pc = "done" =>
        /\ \A e \in DOMAIN Written : Written[e] <= batch.max_affected
        /\ IF \A e \in DOMAIN Written : Written[e] = 0
           THEN batch.max_affected = 0 /\ batch.max_edge_id = NoEdge
           ELSE /\ batch.max_edge_id \in DOMAIN Written
                /\ Written[batch.max_edge_id] = batch.max_affected
                /\ \A e \in DOMAIN Written :
                      Written[e] = batch.max_affected => batch.max_edge_id <= e

C24_Witness ==
    /\ batch.pc = "done"
    /\ batch.max_edge_id = 2
    /\ 3 \in DOMAIN Written
    /\ Written[3] = batch.max_affected
    /\ Written[1] < batch.max_affected

\* the buildings the table holds, by osm id
StoredOsmIds == {loader.osm_id[b] : b \in DOMAIN loader.osm_id}

\* C25: when insert_buildings has returned, the table holds exactly the
\* buildings of the input whose INSERT succeeded and no row of before the
\* call.
C25_OnlyFailedSkipped ==
    loader.pc = "done" =>
        /\ buildings = DOMAIN loader.osm_id
        /\ StoredOsmIds = loader.inserted
        /\ \A b \in BuildingIds : OldOsmId(b) \notin StoredOsmIds

\* C26: the scores other sessions see are at all times those of the last
\* commit of a run that reached its end, the default before any such run:
\* nothing is visible while a run is in progress, and a run that fails or
\* is stopped before its commit leaves every score as it was.
C26_ScoresAllOrNothing ==
    Scores(graph_edges) =
        IF history = <<>> THEN [e \in DOMAIN graph_edges |-> 0]
        ELSE history[Len(history)]

C26_Witness ==
    /\ batch.pc = "failed"
    /\ batch.processed >= 1 /\ batch.processed < Len(batch.edge_ids)
    /\ batch.max_affected >= 1
    /\ Len(history) = 1
    /\ \E e \in DOMAIN graph_edges :
          graph_edges[e].affected_building_count = 0 /\ batch.max_edge_id = e

\* the last spread response and this one are for the same origin node and
\* for different max_hops
SpreadPair ==
    /\ SpreadOk /\ last_spread.op = "spread"
    /\ last_spread.source_node = resp.source_node
    /\ last_spread.max_hops # resp.max_hops

\* of the two, the response for the smaller max_hops and the one for the larger
SpreadSmall == IF last_spread.max_hops < resp.max_hops THEN last_spread ELSE resp
SpreadLarge == IF last_spread.max_hops < resp.max_hops THEN resp ELSE last_spread

\* C27: of two spread responses for one origin on one graph, the one for the
\* larger max_hops has every edge of the other with the same hop, and every
\* edge it has beyond those has a hop of at least the smaller max_hops.
C27_MonotoneInMaxHops ==
    SpreadPair =>
        /\ Range(SpreadSmall.features) \subseteq Range(SpreadLarge.features)
        /\ \A f \in Range(SpreadLarge.features) :
              (\A g \in Range(SpreadSmall.features) : g.edge_id # f.edge_id) =>
                  f.hop >= SpreadSmall.max_hops

C27_Witness ==
    /\ SpreadPair
    /\ Len(SpreadLarge.features) > Len(SpreadSmall.features)
    /\ \E f \in Range(SpreadSmall.features) : f.hop = SpreadSmall.max_hops
    /\ \E f \in Range(SpreadLarge.features) : f.hop = SpreadLarge.max_hops

\* edge e joins two nodes of the component of the hub that nothing else joins
IsBridgeOfHub(hub, e) ==
    LET a == graph_edges[e].source_id
        b == graph_edges[e].target_id
    IN /\ a # b
       /\ a \in Component({hub}, graph_edges, {})
       /\ b \notin Component({a}, graph_edges, {e})

\* the disconnected nodes as the statements compute them
Disconnected(hub, e) ==
    DisconnectedNodes(ReachableBefore(graph_edges, hub), ReachableAfter(graph_edges, hub, e))

ZeroStats ==
    [affected_building_count |-> 0, affected_service_count |-> 0,
     total_service_length_m |-> 0]

\* C28: the disconnected set of an outage is non-empty only for a bridge of
\* the component of the hub; for a self-loop, an edge on a cycle or an edge
\* of another component the response has no feature and zero stats, and the
\* batch writes score 0; and every other edge on an affected pipe has both
\* its endpoints in the disconnected set.
C28_ImpactOnlyForHubBridges ==
    /\ OutageOk =>
          LET D == Disconnected(resp.hub, resp.edge_id)
          IN /\ D # {} => IsBridgeOfHub(resp.hub, resp.edge_id)
             /\ ~IsBridgeOfHub(resp.hub, resp.edge_id) =>
                   resp.features = <<>> /\ resp.stats = ZeroStats
             /\ \A x \in (DOMAIN graph_edges) \ {resp.edge_id} :
                   graph_edges[x].pipe_id \in DisconnectedPipes(graph_edges, D) =>
                       /\ graph_edges[x].source_id \in D
                       /\ graph_edges[x].target_id \in D
    /\ batch.pc = "done" =>
          \A e \in DOMAIN graph_edges :
              graph_edges[e].affected_building_count > 0 =>
                  IsBridgeOfHub(batch.hub_node, e)

C28_Witness ==
    /\ OutageOk
    /\ batch.pc = "done"
    /\ graph_edges[resp.edge_id].source_id # graph_edges[resp.edge_id].target_id
    /\ graph_edges[resp.edge_id].source_id \notin Component({resp.hub}, graph_edges, {})
    /\ \E s \in DOMAIN services : services[s].pipe_id = graph_edges[resp.edge_id].pipe_id
    /\ resp.features = <<>>
    /\ \E e \in DOMAIN graph_edges : graph_edges[e].affected_building_count > 0

\* C29: a worst_day response that names a pipe reports as affected building
\* count the persisted score of that edge, which is also the count of its
\* message.
C29_WorstDayCountIsScore ==
    (resp.op = "worst_day" /\ resp.worst_pipe # NoEdge) =>
        /\ resp.dramatic_message.count =
              graph_edges[resp.worst_pipe].affected_building_count
        /\ resp.stats.affected_building_count =
              graph_edges[resp.worst_pipe].affected_building_count

\* the edges of the UPDATE statements of the run, in the order they ran
RECURSIVE UpdatedEdges(_)
UpdatedEdges(log) ==
    IF log = <<>> THEN <<>>
    ELSE IF Head(log).stmt = "update"
         THEN <<Head(log).edge>> \o UpdatedEdges(Tail(log))
         ELSE UpdatedEdges(Tail(log))

\* C30: a batch run on any store, one without edges included, does not fail,
\* and when it has finished it has written a score to every edge once, by
\* ascending edge id.
C30_CompletesEveryEdgeOnce ==
    /\ batch.pc # "failed"
    /\ batch.pc = "done" => UpdatedEdges(batch.log) = SortedSeq(DOMAIN graph_edges)

=============================================================================
